---- MODULE Spec2Model ----
(***************************************************************************)
(* Soundux audio engine (src/src/helper/audio/audio.cpp): the registry of  *)
(* playing sounds, the control operations play / stopAll / stop / pause /  *)
(* resume / seek, the real-time data_callback of every open device and the *)
(* deferred onFinished task run by the queue worker.                       *)
(*                                                                         *)
(* Every section of code that runs with soundsMutex held is one action;    *)
(* the places where the code releases the mutex (lock.unlock()) are the    *)
(* boundaries between actions, so every interleaving the mutex allows is   *)
(* an interleaving of these actions.  The double arithmetic of the source  *)
(* is modelled exactly (floor of the rational value); a cast of NaN or     *)
(* infinity to an unsigned integer is undefined and yields any value of    *)
(* U64Indeterminate.                                                       *)
(*                                                                         *)
(* Threads: one control thread making the calls (Spec), one callback       *)
(* thread per started device, and the worker of Globals::gQueue.  The      *)
(* miniaudio calls ma_device_stop and ma_device_uninit are synchronous:    *)
(* they return once the device's callback has stopped running.  The queue  *)
(* (push_unique, one worker taking the oldest task) is not part of         *)
(* audio.cpp and follows its description in the design, and so do the      *)
(* members declared in audio.hpp: the identity counter and the repeat flag *)
(* of a session.                                                           *)
(*                                                                         *)
(* Specifications: Spec, the engine as audio.cpp drives it (no session     *)
(* repeats); SpecOfTwo, two threads in play at the same time; SpecOfRepeat,*)
(* sessions with the repeat flag set; SpecOfFinish, sounds played to their *)
(* end under fair scheduling of the callbacks and of the worker.           *)
(***************************************************************************)
EXTENDS Integers, Sequences, FiniteSets, TLC

(* ------------------------------ bounds --------------------------------- *)
\* number of decoders (and so of device handles) the model lets play create
MaxPlays == 2
\* number of calls the control thread makes
MaxCalls == 3
\* number of times a repeating sound is rewound
MaxRestarts == 1

Handles == 1..MaxPlays
Ids == 1..MaxPlays
NoDev == 0
\* threads that call the engine; the specification Spec runs the calls of
\* one control thread, the threading model of the engine's design
AllControlThreads == {"ui", "hotkeys"}

\* sound files: number of PCM frames and sample rate (the second is a valid
\* file that holds no frame)
Sounds == { [frames |-> 1800, sampleRate |-> 1500],
            [frames |-> 0, sampleRate |-> 1500] }
\* frameCount values the audio backend asks for
FrameCounts == {900}
\* positions, in milliseconds, passed to seek
Positions == {301, 2400}

Min(a, b) == IF a <= b THEN a ELSE b

(* --------------------------- pure functions ---------------------------- *)
\* the outcomes of static_cast<std::uint64_t> applied to NaN or infinity
U64Indeterminate == {0, 1000000}

\* static_cast<std::uint64_t>((double(num) / double(den)) * double(mul))
ScaleU64(num, den, mul) ==
    IF den = 0 THEN U64Indeterminate ELSE {(num * mul) \div den}

\* pSound.lengthInMs
LengthInMs(length, sampleRate) == (length * 1000) \div sampleRate

NoSession ==
    [id |-> 0, length |-> 0, sampleRate |-> 0, lengthInMs |-> 0,
     readFrames |-> 0, readInMs |-> 0, buffer |-> 0, paused |-> FALSE,
     shouldSeek |-> FALSE, seekTo |-> 0, repeat |-> FALSE]

\* the values of the repeat flag of a new PlayingSound.  The member and its
\* initial value are declared in audio.hpp and nothing in audio.cpp writes it:
\* the sessions of Spec do not repeat, those of SpecOfRepeat may
RepeatFlags == BOOLEAN

\* the PlayingSound built by play
NewSound(id, snd, repeat) ==
    [NoSession EXCEPT !.id = id, !.length = snd.frames, !.repeat = repeat,
                      !.sampleRate = snd.sampleRate,
                      !.lengthInMs = LengthInMs(snd.frames, snd.sampleRate)]

(* ------------------------------- state --------------------------------- *)
VARIABLES
    allowOverlapping,      \* Globals::gSettings.allowOverlapping
    devices,               \* Audio::devices: name -> volume
    playingSounds,         \* Audio::playingSounds: device handle -> PlayingSound
    playingSoundIdCounter, \* Audio::playingSoundIdCounter
    hw,                    \* per handle: the ma_device and its ma_decoder
    cb,                    \* per handle: the data_callback in flight
    queue,                 \* Globals::gQueue: keys of the pending tasks
    wk,                    \* the queue worker running onFinished
    ctl,                   \* per control thread: the call in progress
    soundsMutex,           \* owner of the exclusive lock between two actions
    sinkEvt,               \* the Globals::gGui call made by the last step
    ret,                   \* the value returned by the last step
    hist,                  \* history of the calls made, for the properties
    calls                  \* number of calls made so far

vars == <<allowOverlapping, devices, playingSounds, playingSoundIdCounter, hw,
          cb, queue, wk, ctl, soundsMutex, sinkEvt, ret, hist, calls>>

NoThread == "none"

NoHw == [dev |-> "none", dec |-> "none", pos |-> 0, frames |-> 0, uninits |-> 0,
         restarts |-> 0]
IdleCb == [pc |-> "idle", n |-> 0, has |-> FALSE, shouldSeek |-> FALSE,
           seekTo |-> 0, repeat |-> FALSE]
IdleWk == [pc |-> "idle", dev |-> NoDev, id |-> 0]
NoSnd == [frames |-> 0, sampleRate |-> 0]
IdleCtl == [pc |-> "idle", op |-> "none", id |-> 0, dev |-> NoDev,
            visited |-> {}, reg0 |-> {}, snd |-> NoSnd, result |-> "none",
            snap |-> NoSession, racing |-> FALSE, before |-> {},
            repeat |-> FALSE]
\* what ma_decoder_init_file, ma_device_init and ma_device_start answer
PlayResults == {"decodeFail", "deviceFail", "startFail", "ok"}

\* what hist remembers of a pause: the id, the position returned and whether
\* a callback of the device was in flight when pause was called
NoPause == [id |-> 0, readFrames |-> 0, readInMs |-> 0, racing |-> FALSE]

\* what hist remembers of the onSoundProgressed calls of a sound since its
\* last seek or restart: how many there were (counted up to 2), the readInMs
\* of the last call and of the one before
NoProgress == [n |-> 0, prev |-> 0, cur |-> 0]

NoEvt == [kind |-> "none", id |-> 0, rt |-> FALSE, ms |-> 0]
NoRet == [t |-> NoThread, op |-> "none", id |-> 0, pos |-> 0, ok |-> FALSE,
          val |-> NoSession]

Evt(kind, id, rt, ms) == [kind |-> kind, id |-> id, rt |-> rt, ms |-> ms]
Ret(t, op, id, ok, val) ==
    [t |-> t, op |-> op, id |-> id, pos |-> 0, ok |-> ok, val |-> val]

Registered == DOMAIN playingSounds
RegisteredIds == {playingSounds[d].id : d \in Registered}
\* an erase that leaves the entry in place
RemoveNothing(f, d) == f

\* playingSounds.erase
Remove(f, d) == [x \in DOMAIN f \ {d} |-> f[x]]
Insert(f, d, s) == [x \in DOMAIN f \cup {d} |-> IF x = d THEN s ELSE f[x]]

\* a search that takes any sound for the one asked for
FindByIdAny(id) == Registered

\* std::find_if over playingSounds by id: the handles whose sound has the id
FindById(id) == {d \in Registered : playingSounds[d].id = id}

Init ==
    /\ allowOverlapping \in BOOLEAN
    /\ devices = [n \in {"default"} |-> 1]
    /\ playingSounds = [d \in {} |-> NoSession]
    /\ playingSoundIdCounter = 0
    /\ hw = [k \in Handles |-> NoHw]
    /\ cb = [k \in Handles |-> IdleCb]
    /\ queue = <<>>
    /\ wk = IdleWk
    /\ ctl = [t \in AllControlThreads |-> IdleCtl]
    /\ soundsMutex = NoThread
    /\ sinkEvt = NoEvt
    /\ ret = NoRet
    /\ hist = [stopRace |-> {}, stoppedAll |-> {},
               pauseSnap |-> [i \in {} |-> NoPause], resumed |-> NoPause,
               lastProgress |-> [i \in {} |-> NoProgress],
               created |-> <<>>,
               finished |-> [i \in {} |-> 0]]
    /\ calls = 0

(* ------------------------- shared building blocks ---------------------- *)
\* std::unique_lock lock(soundsMutex) / lock.lock(): blocks while it is owned
CanLock == soundsMutex = NoThread

\* the teardown made with the mutex still held by the thread
UnlockForTeardownKeepsLock(t) == t

\* lock.unlock() before ma_device_uninit (lines 114, 130, 203): the owner of
\* the mutex while thread t tears the stream down
UnlockForTeardown(t) == NoThread

\* ma_device_stop / ma_device_uninit return only once the device's callback
\* is no longer running
CallbackQuiescent(d) == cb[d].pc = "idle"

\* ma_device_uninit(device); ma_decoder_uninit(decoder)
TornDown(h) == [h EXCEPT !.dev = "uninit", !.dec = "closed",
                         !.uninits = Min(h.uninits + 1, 2)]

\* a pause that leaves the device running
StoppedLeftRunning(h) == h

\* ma_device_stop: stops a started device, fails on any other
Stopped(h) == IF h.dev = "started" THEN [h EXCEPT !.dev = "stopped"] ELSE h

\* ma_device_start: starts a stopped device, fails on any other
Started(h) == IF h.dev = "stopped" THEN [h EXCEPT !.dev = "started"] ELSE h

Quiet == sinkEvt' = NoEvt /\ ret' = NoRet

\* hist after onSoundProgressed was called for sound id with readInMs = ms
NoteProgress(id, ms) ==
    [hist EXCEPT !.lastProgress =
        Insert(@, id, IF id \in DOMAIN @
                      THEN [n |-> 2, prev |-> @[id].cur, cur |-> ms]
                      ELSE [n |-> 1, prev |-> 0, cur |-> ms])]

\* hist after onSoundFinished was called with sound id: the number of such
\* calls, counted up to 2
NoteFinished(id) ==
    [hist EXCEPT !.finished =
        Insert(@, id, IF id \in DOMAIN @ THEN 2 ELSE 1)]

\* hist after a seek was requested or completed, or the sound restarted
NoteJump(id) == [hist EXCEPT !.lastProgress = Remove(@, id)]

\* hist after a step of the callback of device d that moves its position
NoteJumpOf(d) ==
    IF d \in Registered THEN NoteJump(playingSounds[d].id) ELSE hist

(* --------------------------- data_callback ----------------------------- *)
\* lines 286-294: read frameCount frames from the decoder, then take the
\* snapshot getPlayingSound(device) under the shared lock
CbRead(d, frameCount) ==
    /\ hw[d].dev = "started"
    /\ hw[d].restarts < MaxRestarts
    /\ cb[d].pc = "idle"
    /\ CanLock
    /\ LET n == Min(frameCount, hw[d].frames - hw[d].pos)
           has == d \in Registered
           s == IF has THEN playingSounds[d] ELSE NoSession
       IN /\ hw' = [hw EXCEPT ![d].pos = @ + n]
          /\ cb' = [cb EXCEPT ![d] =
                 [pc |-> IF has /\ s.shouldSeek THEN "seek"
                         ELSE IF n > 0 THEN "progress" ELSE "finish",
                  n |-> n, has |-> has, shouldSeek |-> s.shouldSeek,
                  seekTo |-> s.seekTo, repeat |-> s.repeat]]
    /\ Quiet
    /\ UNCHANGED <<allowOverlapping, devices, playingSounds,
                   playingSoundIdCounter, queue, wk, ctl, soundsMutex, hist>>

\* Audio::onSoundSeeked
OnSoundSeeked(d, frame) ==
    IF d \in Registered
    THEN \E ms \in ScaleU64(frame, playingSounds[d].length,
                            playingSounds[d].lengthInMs) :
            playingSounds' = [playingSounds EXCEPT
                ![d].shouldSeek = FALSE, ![d].readFrames = frame,
                ![d].readInMs = ms]
    ELSE UNCHANGED playingSounds

\* lines 296-300: ma_decoder_seek_to_pcm_frame, then onSoundSeeked
CbSeek(d) ==
    /\ cb[d].pc = "seek"
    /\ CanLock
    /\ hw' = [hw EXCEPT ![d].pos = Min(cb[d].seekTo, hw[d].frames)]
    /\ OnSoundSeeked(d, cb[d].seekTo)
    /\ cb' = [cb EXCEPT ![d].pc = IF cb[d].n > 0 THEN "progress" ELSE "finish"]
    /\ hist' = NoteJumpOf(d)
    /\ Quiet
    /\ UNCHANGED <<allowOverlapping, devices, playingSoundIdCounter, queue,
                   wk, ctl, soundsMutex>>

\* the thread on which onSoundProgressed calls Globals::gGui (line 241): the
\* caller's, which is the real-time callback thread
ProgressSinkOnRealTime == TRUE

\* a progress report that takes the frames off the position
ProgressedBackwards(readFrames, frames) == readFrames - frames

\* line 233: sound.readFrames += frames
Progressed(readFrames, frames) == readFrames + frames

\* Audio::onSoundProgressed, called from data_callback when readFrames > 0
CbProgress(d) ==
    /\ cb[d].pc = "progress"
    /\ CanLock
    /\ IF d \in Registered
       THEN LET s == playingSounds[d]
                rf == Progressed(s.readFrames, cb[d].n)
                buf == s.buffer + cb[d].n
            IN IF buf > s.sampleRate \div 2
               THEN \E ms \in ScaleU64(rf, s.length, s.lengthInMs) :
                      /\ playingSounds' = [playingSounds EXCEPT
                            ![d].readFrames = rf, ![d].readInMs = ms,
                            ![d].buffer = 0]
                      /\ sinkEvt' = Evt("progressed", s.id,
                                        ProgressSinkOnRealTime, ms)
                      /\ hist' = NoteProgress(s.id, ms)
               ELSE /\ playingSounds' = [playingSounds EXCEPT
                            ![d].readFrames = rf, ![d].buffer = buf]
                    /\ sinkEvt' = NoEvt
                    /\ UNCHANGED hist
       ELSE /\ UNCHANGED <<playingSounds, hist>>
            /\ sinkEvt' = NoEvt
    /\ ret' = NoRet
    /\ cb' = [cb EXCEPT ![d] = IdleCb]
    /\ UNCHANGED <<allowOverlapping, devices, playingSoundIdCounter, hw,
                   queue, wk, ctl, soundsMutex>>

\* Queue::push_unique(key, task): no second pending task for the same key
PushUnique(q, key) ==
    IF \E i \in 1..Len(q) : q[i] = key THEN q ELSE Append(q, key)

\* lines 306-317: end of stream
CbFinish(d) ==
    /\ cb[d].pc = "finish"
    /\ IF cb[d].has /\ cb[d].repeat
       THEN /\ hw' = [hw EXCEPT ![d].pos = 0, ![d].restarts = @ + 1]
            /\ hist' = NoteJumpOf(d)
            /\ UNCHANGED queue
       ELSE /\ queue' = PushUnique(queue, d)
            /\ UNCHANGED <<hw, hist>>
    /\ cb' = [cb EXCEPT ![d] = IdleCb]
    /\ Quiet
    /\ UNCHANGED <<allowOverlapping, devices, playingSounds,
                   playingSoundIdCounter, wk, ctl, soundsMutex>>

(* ------------------------ the queue worker ----------------------------- *)
\* the argument of the task [&device] { onFinished(device); } when it runs:
\* the lambda holds a reference to data_callback's parameter, which is dead by
\* then, so the pointer read is the one pushed or an indeterminate one
TaskDevice(key) == {key, NoDev}

\* the worker takes the oldest task and runs Audio::onFinished up to its
\* lock.unlock() (lines 199-203), or to its end when the device is unknown
WkPop ==
    /\ wk.pc = "idle"
    /\ queue # <<>>
    /\ CanLock
    /\ queue' = Tail(queue)
    /\ \E dev \in TaskDevice(Head(queue)) :
          IF dev \in Registered
          THEN /\ wk' = [pc |-> "teardown", dev |-> dev,
                         id |-> playingSounds[dev].id]
               /\ soundsMutex' = UnlockForTeardown("worker")
          ELSE /\ wk' = IdleWk
               /\ UNCHANGED soundsMutex
    /\ Quiet
    /\ UNCHANGED <<allowOverlapping, devices, playingSounds,
                   playingSoundIdCounter, hw, cb, ctl, hist>>

\* lines 204-205
WkTeardown ==
    /\ wk.pc = "teardown"
    /\ CallbackQuiescent(wk.dev)
    /\ hw' = [hw EXCEPT ![wk.dev] = TornDown(@)]
    /\ wk' = [wk EXCEPT !.pc = "notify"]
    /\ Quiet
    /\ UNCHANGED <<allowOverlapping, devices, playingSounds,
                   playingSoundIdCounter, cb, queue, ctl, soundsMutex, hist>>

\* lines 206-210: lock.lock(); onSoundFinished(sound); erase(device).  sound
\* is a reference taken before the unlock: when the entry was erased in
\* between it dangles and reads the old entry or an indeterminate one
WkNotify ==
    /\ wk.pc = "notify"
    /\ CanLock
    /\ \E id \in (IF wk.dev \in Registered
                  THEN {playingSounds[wk.dev].id} ELSE {wk.id, 0}) :
          /\ sinkEvt' = Evt("finished", id, FALSE, 0)
          /\ hist' = NoteFinished(id)
    /\ playingSounds' = Remove(playingSounds, wk.dev)
    /\ wk' = IdleWk
    /\ ret' = NoRet
    /\ UNCHANGED <<allowOverlapping, devices, playingSoundIdCounter, hw, cb,
                   queue, ctl, soundsMutex>>

(* ------------------------------ stopAll -------------------------------- *)
Return(t, r) ==
    /\ ctl' = [ctl EXCEPT ![t] = IdleCtl]
    /\ ret' = r

\* a stopAll that leaves the entries in place
ClearedNothing(f) == f

\* line 119: playingSounds.clear()
Cleared(f) == [d \in {} |-> NoSession]

\* line 119 and the return of stopAll, to its caller play when play made the
\* call (line 44)
StopAllDone(t, c) ==
    /\ playingSounds' = Cleared(playingSounds)
    /\ hist' = [hist EXCEPT !.stoppedAll = @ \cup c.reg0]
    /\ soundsMutex' = NoThread
    /\ sinkEvt' = NoEvt
    /\ IF c.op = "stopAll"
       THEN Return(t, Ret(t, "stopAll", 0, TRUE, NoSession))
       ELSE /\ ctl' = [ctl EXCEPT ![t] = [c EXCEPT !.pc = "play_open",
                                            !.dev = NoDev, !.visited = {}]]
            /\ ret' = NoRet
    /\ UNCHANGED <<allowOverlapping, devices, playingSoundIdCounter, hw, cb,
                   queue, wk>>

\* lines 110-114: lock, first element of the iteration, unlock
StopAllStart(t, c) ==
    /\ CanLock
    /\ IF Registered = {}
       THEN StopAllDone(t, [c EXCEPT !.reg0 = {}])
       ELSE /\ \E d \in Registered :
                 ctl' = [ctl EXCEPT ![t] = [c EXCEPT !.pc = "sa_teardown",
                            !.dev = d, !.visited = {d},
                            !.reg0 = RegisteredIds]]
            /\ soundsMutex' = UnlockForTeardown(t)
            /\ Quiet
            /\ UNCHANGED <<allowOverlapping, devices, playingSounds,
                           playingSoundIdCounter, hw, cb, queue, wk, hist>>

StopAllCall(t) ==
    /\ ctl[t].pc = "idle"
    /\ StopAllStart(t, [IdleCtl EXCEPT !.op = "stopAll"])

\* lines 115-116
StopAllTeardown(t) ==
    /\ ctl[t].pc = "sa_teardown"
    /\ CallbackQuiescent(ctl[t].dev)
    /\ hw' = [hw EXCEPT ![ctl[t].dev] = TornDown(@)]
    /\ ctl' = [ctl EXCEPT ![t].pc = "sa_next"]
    /\ Quiet
    /\ UNCHANGED <<allowOverlapping, devices, playingSounds,
                   playingSoundIdCounter, cb, queue, wk, soundsMutex, hist>>

\* lines 117-119: lock.lock(), the next element or clear().  When the element
\* the iterator stands on was erased meanwhile, advancing it is undefined: the
\* loop goes on with an element not yet visited or ends
StopAllNext(t) ==
    /\ ctl[t].pc = "sa_next"
    /\ CanLock
    /\ LET c == ctl[t]
           rest == Registered \ c.visited
       IN \E goOn \in (IF rest = {} THEN {FALSE}
                       ELSE IF c.dev \in Registered THEN {TRUE}
                       ELSE BOOLEAN) :
            IF goOn
            THEN /\ \E d \in rest :
                      ctl' = [ctl EXCEPT ![t] = [c EXCEPT !.pc = "sa_teardown",
                                 !.dev = d, !.visited = @ \cup {d}]]
                 /\ soundsMutex' = UnlockForTeardown(t)
                 /\ Quiet
                 /\ UNCHANGED <<allowOverlapping, devices, playingSounds,
                                playingSoundIdCounter, hw, cb, queue, wk, hist>>
            ELSE StopAllDone(t, c)

(* -------------------------------- stop --------------------------------- *)
\* a finish task for the stream is pending in the queue or running
FinishTaskInFlight(d) ==
    \/ \E i \in 1..Len(queue) : queue[i] = d
    \/ wk.pc # "idle" /\ wk.dev = d

\* lines 123-130 (found) or 123-141 (not found)
StopFind(t, id) ==
    /\ ctl[t].pc = "idle"
    /\ CanLock
    /\ IF FindById(id) = {}
       THEN /\ Return(t, Ret(t, "stop", id, FALSE, NoSession))
            /\ UNCHANGED <<soundsMutex, hist>>
       ELSE /\ \E d \in FindById(id) :
                 /\ ctl' = [ctl EXCEPT ![t] = [IdleCtl EXCEPT !.op = "stop",
                               !.pc = "stop_teardown", !.id = id, !.dev = d]]
                 /\ hist' = [hist EXCEPT !.stopRace =
                               IF FinishTaskInFlight(d) THEN @ \cup {id} ELSE @]
            /\ soundsMutex' = UnlockForTeardown(t)
            /\ ret' = NoRet
    /\ sinkEvt' = NoEvt
    /\ UNCHANGED <<allowOverlapping, devices, playingSounds,
                   playingSoundIdCounter, hw, cb, queue, wk>>

\* lines 131-132
StopTeardown(t) ==
    /\ ctl[t].pc = "stop_teardown"
    /\ CallbackQuiescent(ctl[t].dev)
    /\ hw' = [hw EXCEPT ![ctl[t].dev] = TornDown(@)]
    /\ ctl' = [ctl EXCEPT ![t].pc = "stop_erase"]
    /\ Quiet
    /\ UNCHANGED <<allowOverlapping, devices, playingSounds,
                   playingSoundIdCounter, cb, queue, wk, soundsMutex, hist>>

\* lines 133-136: lock.lock(); erase(sound); return true.  Erasing through an
\* iterator whose entry is already gone leaves the other entries alone
StopErase(t) ==
    /\ ctl[t].pc = "stop_erase"
    /\ CanLock
    /\ playingSounds' = Remove(playingSounds, ctl[t].dev)
    /\ Return(t, Ret(t, "stop", ctl[t].id, TRUE, NoSession))
    /\ sinkEvt' = NoEvt
    /\ UNCHANGED <<allowOverlapping, devices, playingSoundIdCounter, hw, cb,
                   queue, wk, soundsMutex, hist>>

(* ------------------------------- pause --------------------------------- *)
NotePause(id, s, racing) ==
    [hist EXCEPT !.pauseSnap =
        Insert(@, id, [id |-> id, readFrames |-> s.readFrames,
                       readInMs |-> s.readInMs, racing |-> racing])]

\* lines 145-155, or to the return when the sound is paused or unknown
PauseFind(t, id) ==
    /\ ctl[t].pc = "idle"
    /\ CanLock
    /\ IF FindById(id) = {}
       THEN /\ Return(t, Ret(t, "pause", id, FALSE, NoSession))
            /\ UNCHANGED hist
       ELSE \E d \in FindById(id) :
              IF playingSounds[d].paused
              THEN /\ Return(t, Ret(t, "pause", id, TRUE, playingSounds[d]))
                   /\ hist' = NotePause(id, playingSounds[d], FALSE)
              ELSE /\ ctl' = [ctl EXCEPT ![t] = [IdleCtl EXCEPT !.op = "pause",
                                 !.pc = "pause_stop", !.id = id, !.dev = d,
                                 !.snap = playingSounds[d],
                                 !.racing = ~CallbackQuiescent(d)]]
                   /\ ret' = NoRet
                   /\ UNCHANGED hist
    /\ sinkEvt' = NoEvt
    /\ UNCHANGED <<allowOverlapping, devices, playingSounds,
                   playingSoundIdCounter, hw, cb, queue, wk, soundsMutex>>

\* line 156: ma_device_stop, which waits for the callback in flight
PauseDeviceStopWaits(d) == CallbackQuiescent(d)

PauseStop(t) ==
    /\ ctl[t].pc = "pause_stop"
    /\ PauseDeviceStopWaits(ctl[t].dev)
    /\ hw' = [hw EXCEPT ![ctl[t].dev] = Stopped(@)]
    /\ ctl' = [ctl EXCEPT ![t].pc = "pause_mark"]
    /\ Quiet
    /\ UNCHANGED <<allowOverlapping, devices, playingSounds,
                   playingSoundIdCounter, cb, queue, wk, soundsMutex, hist>>

\* lines 157-160: lock.lock(); paused = true; return sound->second.  When the
\* entry was erased meanwhile the iterator dangles: the write changes no
\* entry and the value returned is the old entry or an indeterminate one
PauseMark(t) ==
    /\ ctl[t].pc = "pause_mark"
    /\ CanLock
    /\ LET d == ctl[t].dev
       IN IF d \in Registered
          THEN LET s == [playingSounds[d] EXCEPT !.paused = TRUE]
               IN /\ playingSounds' = [playingSounds EXCEPT ![d] = s]
                  /\ Return(t, Ret(t, "pause", ctl[t].id, TRUE, s))
                  /\ hist' = NotePause(ctl[t].id, s, ctl[t].racing)
          ELSE /\ UNCHANGED playingSounds
               /\ \E s \in {[ctl[t].snap EXCEPT !.paused = TRUE], NoSession} :
                     Return(t, Ret(t, "pause", ctl[t].id, TRUE, s))
               /\ UNCHANGED hist
    /\ sinkEvt' = NoEvt
    /\ UNCHANGED <<allowOverlapping, devices, playingSoundIdCounter, hw, cb,
                   queue, wk, soundsMutex>>

(* ------------------------------- resume -------------------------------- *)
\* Audio::resume: the mutex is held from the first line to the return
Resume(t, id) ==
    /\ ctl[t].pc = "idle"
    /\ CanLock
    /\ hist' = [hist EXCEPT !.pauseSnap = Remove(@, id),
                            !.resumed = IF id \in DOMAIN hist.pauseSnap
                                        THEN hist.pauseSnap[id] ELSE NoPause]
    /\ IF FindById(id) = {}
       THEN /\ Return(t, Ret(t, "resume", id, FALSE, NoSession))
            /\ UNCHANGED <<playingSounds, hw>>
       ELSE \E d \in FindById(id) :
              IF playingSounds[d].paused
              THEN LET s == [playingSounds[d] EXCEPT !.paused = FALSE]
                   IN /\ hw' = [hw EXCEPT ![d] = Started(@)]
                      /\ playingSounds' = [playingSounds EXCEPT ![d] = s]
                      /\ Return(t, Ret(t, "resume", id, TRUE, s))
              ELSE /\ Return(t, Ret(t, "resume", id, TRUE, playingSounds[d]))
                   /\ UNCHANGED <<playingSounds, hw>>
    /\ sinkEvt' = NoEvt
    /\ UNCHANGED <<allowOverlapping, devices, playingSoundIdCounter, cb,
                   queue, wk, soundsMutex>>

(* -------------------------------- seek --------------------------------- *)
\* line 266: the values seekTo can take for a position in milliseconds
SeekTarget(position, s) == ScaleU64(position, s.lengthInMs, s.length)

\* lines 273-275: the readInMs of the snapshot seek returns
SeekReadInMs(seekTo, s) == ScaleU64(seekTo, s.length, s.lengthInMs)

\* Audio::seek
Seek(t, id, position) ==
    /\ ctl[t].pc = "idle"
    /\ CanLock
    /\ hist' = IF FindById(id) = {} THEN hist ELSE NoteJump(id)
    /\ IF FindById(id) = {}
       THEN /\ Return(t, Ret(t, "seek", id, FALSE, NoSession))
            /\ UNCHANGED playingSounds
       ELSE \E d \in FindById(id) :
            \E target \in SeekTarget(position, playingSounds[d]) :
              LET s == [playingSounds[d] EXCEPT !.seekTo = target,
                                                !.shouldSeek = TRUE]
              IN \E ms \in SeekReadInMs(target, s) :
                   /\ playingSounds' = [playingSounds EXCEPT ![d] = s]
                   /\ Return(t, [Ret(t, "seek", id, TRUE,
                                     [s EXCEPT !.readFrames = target,
                                               !.readInMs = ms])
                                 EXCEPT !.pos = position])
    /\ sinkEvt' = NoEvt
    /\ UNCHANGED <<allowOverlapping, devices, playingSoundIdCounter, hw, cb,
                   queue, wk, soundsMutex>>

(* -------------------------------- play --------------------------------- *)
\* decoders created so far, and those the plays in progress will create
Allocated == Cardinality({k \in Handles : hw[k].dec # "none"})
Allocating ==
    Cardinality({u \in AllControlThreads :
                    /\ ctl[u].op = "play"
                    /\ ctl[u].result # "decodeFail"
                    /\ ctl[u].pc \in {"sa_teardown", "sa_next", "play_open"}})

\* a counter that play reads without moving it
PreIncrementKeeps(counter) == counter

\* line 89: ++playingSoundIdCounter
PreIncrement(counter) == counter + 1

\* the declaration of playingSoundIdCounter is in audio.hpp: the identity
\* counter of the concurrency-safe registry is incremented in one indivisible
\* step, although line 89 runs before play takes soundsMutex
IdCounterAtomic == TRUE

\* the other threads that are between line 89 and line 100 of play
IncrementingWith(t) ==
    {u \in AllControlThreads \ {t} :
        ctl[u].op = "play" /\ ctl[u].pc = "play_insert"}

\* the values pSound.id can get at line 89: the incremented counter, and for
\* a counter that is a plain integer any value when another play races
IncrementResults(t) ==
    IF IdCounterAtomic \/ IncrementingWith(t) = {}
    THEN {PreIncrement(playingSoundIdCounter)}
    ELSE 0..PreIncrement(playingSoundIdCounter)

\* the ids of the sessions created so far, oldest first
CreatedIds == {hist.created[i].id : i \in DOMAIN hist.created}

\* lines 47-89: ma_decoder_init_file, ma_device_init, ma_device_start and the
\* new PlayingSound with its id.  The device handle k is the one of the decoder
\* created for this call
PlayOpenFrom(t, c) ==
    LET k == Allocated + 1
        fresh == [NoHw EXCEPT !.frames = c.snd.frames]
    IN /\ sinkEvt' = NoEvt
       /\ IF c.result = "decodeFail"
          THEN /\ Return(t, Ret(t, "play", 0, FALSE, NoSession))
               /\ UNCHANGED <<hw, playingSoundIdCounter>>
          ELSE IF c.result = "deviceFail"
          THEN /\ hw' = [hw EXCEPT ![k] = [fresh EXCEPT !.dec = "open"]]
               /\ Return(t, Ret(t, "play", 0, FALSE, NoSession))
               /\ UNCHANGED playingSoundIdCounter
          ELSE IF c.result = "startFail"
          THEN /\ hw' = [hw EXCEPT ![k] = TornDown(fresh)]
               /\ Return(t, Ret(t, "play", 0, FALSE, NoSession))
               /\ UNCHANGED playingSoundIdCounter
          ELSE /\ hw' = [hw EXCEPT ![k] = [fresh EXCEPT !.dec = "open",
                                                       !.dev = "started"]]
               /\ \E id \in IncrementResults(t) :
                     /\ playingSoundIdCounter' = PreIncrement(playingSoundIdCounter)
                     /\ ctl' = [ctl EXCEPT ![t] =
                                   [c EXCEPT !.pc = "play_insert", !.dev = k,
                                             !.id = id,
                                             !.snap = NewSound(id, c.snd, c.repeat)]]
               /\ ret' = NoRet

\* lines 42-46: the call, with stopAll first when sounds may not overlap
PlayCall(t, snd, result, repeat) ==
    /\ ctl[t].pc = "idle"
    /\ result # "decodeFail" => Allocated + Allocating < MaxPlays
    /\ LET c == [IdleCtl EXCEPT !.op = "play", !.snd = snd, !.result = result,
                                !.before = CreatedIds, !.repeat = repeat]
       IN IF allowOverlapping
          THEN /\ PlayOpenFrom(t, c)
               /\ UNCHANGED <<allowOverlapping, devices, playingSounds,
                              cb, queue, wk, soundsMutex, hist>>
          ELSE StopAllStart(t, c)

\* play after its stopAll has returned
PlayOpen(t) ==
    /\ ctl[t].pc = "play_open"
    /\ PlayOpenFrom(t, ctl[t])
    /\ UNCHANGED <<allowOverlapping, devices, playingSounds,
                   cb, queue, wk, soundsMutex, hist>>

\* lines 100-106: the insertion of the new PlayingSound under the mutex,
\* onSoundPlayed on the calling thread
PlayInsert(t) ==
    /\ ctl[t].pc = "play_insert"
    /\ CanLock
    /\ LET id == ctl[t].id
           pSound == ctl[t].snap
       IN /\ playingSounds' = Insert(playingSounds, ctl[t].dev, pSound)
          /\ sinkEvt' = Evt("played", id, FALSE, 0)
          /\ hist' = [hist EXCEPT !.created =
                         Append(@, [id |-> id, before |-> ctl[t].before])]
          /\ Return(t, Ret(t, "play", id, TRUE, pSound))
    /\ UNCHANGED <<allowOverlapping, devices, playingSoundIdCounter, hw, cb,
                   queue, wk, soundsMutex>>

(* --------------------------- specification ----------------------------- *)
ControlNext(t) ==
    \/ /\ calls < MaxCalls
       /\ calls' = calls + 1
       /\ \/ \E snd \in Sounds, result \in PlayResults : PlayCall(t, snd, result, FALSE)
          \/ StopAllCall(t)
          \/ \E id \in Ids : StopFind(t, id)
          \/ \E id \in Ids : PauseFind(t, id)
          \/ \E id \in Ids : Resume(t, id)
          \/ \E id \in Ids, position \in Positions : Seek(t, id, position)
    \/ /\ UNCHANGED calls
       /\ \/ PlayOpen(t)
          \/ PlayInsert(t)
          \/ StopAllTeardown(t)
          \/ StopAllNext(t)
          \/ StopTeardown(t)
          \/ StopErase(t)
          \/ PauseStop(t)
          \/ PauseMark(t)

CallbackNext ==
    /\ UNCHANGED calls
    /\ \E d \in Handles :
        \/ \E frameCount \in FrameCounts : CbRead(d, frameCount)
        \/ CbSeek(d)
        \/ CbProgress(d)
        \/ CbFinish(d)

WorkerNext == UNCHANGED calls /\ (WkPop \/ WkTeardown \/ WkNotify)

Next == ControlNext("ui") \/ CallbackNext \/ WorkerNext

Spec == Init /\ [][Next]_vars

\* the callback of device d when nobody seeks in its sound
StreamOf(d) ==
    /\ UNCHANGED calls
    /\ \/ \E frameCount \in FrameCounts : CbRead(d, frameCount)
       \/ CbProgress(d)
       \/ CbFinish(d)

\* the callbacks of sounds that nobody seeks in
StreamNext == \E d \in Handles : StreamOf(d)

\* a thread that plays sounds, repeating or not, and stops them
RepeatingNext(t) ==
    \/ /\ calls < MaxCalls
       /\ calls' = calls + 1
       /\ \/ \E snd \in Sounds, result \in PlayResults, repeat \in RepeatFlags :
                PlayCall(t, snd, result, repeat)
          \/ StopAllCall(t)
          \/ \E id \in Ids : StopFind(t, id)
    \/ /\ UNCHANGED calls
       /\ \/ PlayOpen(t)
          \/ PlayInsert(t)
          \/ StopAllTeardown(t)
          \/ StopAllNext(t)
          \/ StopTeardown(t)
          \/ StopErase(t)

NextOfRepeat ==
    \/ RepeatingNext("ui")
    \/ StreamNext
    \/ WorkerNext

SpecOfRepeat == Init /\ [][NextOfRepeat]_vars

\* a thread that only calls play
PlayerNext(t) ==
    \/ /\ calls < MaxCalls
       /\ calls' = calls + 1
       /\ \E snd \in Sounds, result \in PlayResults : PlayCall(t, snd, result, FALSE)
    \/ /\ UNCHANGED calls
       /\ \/ PlayOpen(t)
          \/ PlayInsert(t)
          \/ StopAllTeardown(t)
          \/ StopAllNext(t)

\* sounds played to their end: one thread calling play, the audio backend
\* calling data_callback for every started device again and again, and the
\* queue worker running every task it is given.  ma_device_uninit gets its
\* turn between two callbacks of the device however often they come
NextOfFinish ==
    \/ PlayerNext("ui")
    \/ StreamNext
    \/ WorkerNext

SpecOfFinish ==
    /\ Init
    /\ [][NextOfFinish]_vars
    /\ \A d \in Handles : WF_vars(StreamOf(d))
    /\ WF_vars(WorkerNext)
    /\ SF_vars(UNCHANGED calls /\ WkTeardown)

\* two threads calling play at the same time, on devices whose callbacks
\* have not run yet
NextOfTwo ==
    \/ PlayerNext("ui")
    \/ PlayerNext("hotkeys")

SpecOfTwo == Init /\ [][NextOfTwo]_vars

(* ------------------------------ properties ----------------------------- *)
\* C1: no call of the notification sink (onSoundPlayed, onSoundProgressed,
\* onSoundFinished) is ever made on the real-time callback thread.
NoSinkCallOnRealTimeThread ==
    sinkEvt.kind # "none" => ~sinkEvt.rt

\* a step of a play call whose decoder fails to open: a step of a call in
\* progress, the first step of a call, or a call that returns no session at
\* once without having created a device
DecodeFailStep(t) ==
    \/ /\ ctl[t].op = "play"
       /\ ctl[t].result = "decodeFail"
       /\ ctl'[t] # ctl[t]
    \/ /\ ctl[t].pc = "idle"
       /\ ctl'[t].op = "play"
       /\ ctl'[t].result = "decodeFail"
    \/ /\ ctl[t].pc = "idle"
       /\ calls' # calls
       /\ ret'.t = t /\ ret'.op = "play" /\ ~ret'.ok
       /\ hw' = hw

\* C2: a play call whose decoder fails to open returns no session and
\* leaves the registry and the device collection as they were, whatever the
\* allow-overlapping setting and the sessions playing.
FailedDecodeLeavesRegistry ==
    [][\A t \in AllControlThreads :
          DecodeFailStep(t) =>
             /\ playingSounds' = playingSounds
             /\ devices' = devices
             /\ (ret'.t = t /\ ret'.op = "play") => ~ret'.ok]_vars

\* C3: when stop(id) is called while a finish task for the session's stream
\* is pending or running, no onSoundFinished is delivered for that id after
\* the call.
NoFinishAfterRacingStop ==
    sinkEvt.kind = "finished" => sinkEvt.id \notin hist.stopRace

\* C4: when stopAll returns the registry is empty, and afterwards no
\* onSoundProgressed or onSoundFinished is delivered for a session that was
\* playing when stopAll was called.
StopAllSilences ==
    /\ ret.op = "stopAll" => Registered = {}
    /\ sinkEvt.kind \in {"progressed", "finished"} =>
          sinkEvt.id \notin hist.stoppedAll

\* C5: every session in the registry has 0 <= readFrames <= length.
ReadFramesWithinLength ==
    \A d \in Registered :
       /\ 0 <= playingSounds[d].readFrames
       /\ playingSounds[d].readFrames <= playingSounds[d].length

\* the hardware stream of handle k is open: started by play, not torn down
StreamOpen(k) == hw[k].dev \in {"started", "stopped"}

\* C6: whenever the registry mutex is not held exclusively, a session is in
\* the registry if and only if its hardware stream is open.
RegisteredIffStreamOpen ==
    soundsMutex = NoThread =>
       \A k \in Handles : k \in Registered <=> StreamOpen(k)

\* C7: every stream/decoder pair is torn down at most once, and no entry of
\* the registry belongs to a stream that has been torn down.
TornDownOnceAndUnregistered ==
    \A k \in Handles :
       /\ hw[k].uninits <= 1
       /\ k \in Registered => hw[k].dev # "uninit"

\* a thread is between its lock.unlock() and its lock.lock() around
\* ma_device_uninit / ma_decoder_uninit
TearingDown(t) ==
    IF t = "worker" THEN wk.pc = "teardown"
    ELSE ctl[t].pc \in {"stop_teardown", "sa_teardown"}

\* C8: a thread of stop, stopAll or onFinished that is tearing a stream down
\* does not hold the registry mutex.
TeardownWithoutLock ==
    \A t \in AllControlThreads \cup {"worker"} :
       TearingDown(t) => soundsMutex # t

\* C8 witness: stop has torn the stream of a registered sound down while the
\* worker is tearing it down as well, neither holding the mutex
TeardownWithoutLockWitness ==
    /\ ctl["ui"].pc = "stop_erase"
    /\ wk.pc = "teardown"
    /\ hw[ctl["ui"].dev].uninits >= 1
    /\ soundsMutex = NoThread

\* C9: seek stores seekTo = floor(positionMs / lengthInMs * length) with the
\* pending flag set and returns a snapshot whose readFrames is seekTo and
\* whose readInMs is positionMs or positionMs - 1; lengthInMs = 10000,
\* length = 441000, positionMs = 2500 give seekTo = 110250, readInMs = 2500.
SeekSnapshotMatchesPosition ==
    /\ ScaleU64(2500, 10000, 441000) = {110250}
    /\ ScaleU64(110250, 441000, 10000) = {2500}
    /\ (ret.op = "seek" /\ ret.ok) =>
          \A d \in FindById(ret.id) :
             LET s == playingSounds[d]
             IN /\ s.shouldSeek
                /\ s.seekTo * s.lengthInMs <= ret.pos * s.length
                /\ ret.pos * s.length < (s.seekTo + 1) * s.lengthInMs
                /\ ret.val.readFrames = s.seekTo
                /\ ret.val.readInMs <= ret.pos
                /\ ret.pos <= ret.val.readInMs + 1

\* C10: from the return of pause(id) to the call and return of the next
\* resume(id) the session keeps the readFrames and readInMs of the snapshot
\* pause returned.
PauseKeepsPosition ==
    /\ \A d \in Registered :
          LET s == playingSounds[d]
          IN s.id \in DOMAIN hist.pauseSnap =>
                /\ s.readFrames = hist.pauseSnap[s.id].readFrames
                /\ s.readInMs = hist.pauseSnap[s.id].readInMs
    /\ (ret.op = "resume" /\ ret.ok /\ hist.resumed.id = ret.id) =>
          /\ ret.val.readFrames = hist.resumed.readFrames
          /\ ret.val.readInMs = hist.resumed.readInMs

\* C10 witness: resume returns a sound that had progressed and whose pause
\* was called while a callback of its device was in flight
PauseKeepsPositionWitness ==
    /\ ret.op = "resume" /\ ret.ok
    /\ hist.resumed.id = ret.id
    /\ hist.resumed.racing
    /\ ret.val.readFrames > 0
    /\ ~ret.val.paused

\* C11: of two successive onSoundProgressed notifications of a session with
\* no seek requested or completed and no restart in between, the second
\* carries a readInMs that is not smaller than the first's.
ProgressNeverGoesBack ==
    \A id \in DOMAIN hist.lastProgress :
       hist.lastProgress[id].n = 2
          => hist.lastProgress[id].prev <= hist.lastProgress[id].cur

\* C11 witness: a second notification has followed a first with no seek in
\* between, and time has advanced
ProgressNeverGoesBackWitness ==
    /\ sinkEvt.kind = "progressed"
    /\ sinkEvt.id \in DOMAIN hist.lastProgress
    /\ hist.lastProgress[sinkEvt.id].n = 2
    /\ hist.lastProgress[sinkEvt.id].cur = sinkEvt.ms
    /\ hist.lastProgress[sinkEvt.id].cur > hist.lastProgress[sinkEvt.id].prev

DeviceErrorStep(k) ==
    /\ hw[k].dec = "none"
    /\ hw'[k].dec # "none"
    /\ ret'.op = "play"
    /\ ~ret'.ok

\* C13: when play fails because the device does not open or does not start,
\* the decoder it opened is released before it returns, no session is added
\* to the registry and no onSoundPlayed is sent.
DeviceErrorReleasesDecoder ==
    [][\A k \in Handles :
          DeviceErrorStep(k) =>
             /\ hw'[k].dec = "closed"
             /\ playingSounds' = playingSounds
             /\ sinkEvt'.kind # "played"]_vars

\* the step in which thread t calls op(id): the call returns in that step or
\* is in progress after it
CallStep(t, op, id) ==
    /\ ctl[t].pc = "idle"
    /\ calls' # calls
    /\ \/ ret'.t = t /\ ret'.op = op /\ ret'.id = id
       \/ ctl'[t].op = op /\ ctl'[t].id = id

\* C14: for an id that no session of the registry has, stop returns false,
\* pause, resume and seek return no session, and the registry, the fields of
\* every session and every device are left as they were.
UnknownIdIsNoOp ==
    [][\A t \in AllControlThreads, id \in Ids,
          op \in {"stop", "pause", "resume", "seek"} :
          (CallStep(t, op, id) /\ \A d \in Registered : playingSounds[d].id # id)
             => /\ ret'.t = t /\ ret'.op = op /\ ret'.id = id
                /\ ~ret'.ok
                /\ ret'.val = NoSession
                /\ playingSounds' = playingSounds
                /\ hw' = hw]_vars

\* C14 witness: a call has just failed on an id that no session has while
\* another session is playing
UnknownIdIsNoOpWitness ==
    /\ ret.op \in {"stop", "pause", "resume", "seek"}
    /\ ~ret.ok
    /\ ret.val = NoSession
    /\ Registered # {}
    /\ ret.id \notin RegisteredIds
    /\ \E k \in Registered : hw[k].dev = "started"

\* C15: at any time the queue holds at most one finish task for a stream,
\* however many callbacks found the end of the stream, and onSoundFinished
\* is delivered at most once for a session.
OneFinishPerSession ==
    /\ \A i, j \in DOMAIN queue : i # j => queue[i] # queue[j]
    /\ \A id \in Ids : id \in DOMAIN hist.finished => hist.finished[id] = 1

\* C15 witness: onSoundFinished has just been delivered for the only sound
\* played while a second finish task for its stream, pushed by a later
\* callback, is pending
OneFinishPerSessionWitness ==
    /\ sinkEvt.kind = "finished"
    /\ sinkEvt.id \in Ids
    /\ hist.finished[sinkEvt.id] = 1
    /\ Len(hist.created) = 1
    /\ \E k \in Handles : hw[k].dev = "uninit" /\ queue = <<k>>

\* C16: with overlapping playback disabled and one thread making the calls,
\* the registry holds at most one session each time play returns, and after
\* a successful play that session is the one just created.
OneSessionWithoutOverlapping ==
    (~allowOverlapping /\ ret.op = "play") =>
       /\ Cardinality(Registered) <= 1
       /\ ret.ok => RegisteredIds = {ret.id}

\* C16 witness: a second play has returned its session after its stopAll
\* stopped the first one
OneSessionWithoutOverlappingWitness ==
    /\ ~allowOverlapping
    /\ ret.op = "play" /\ ret.ok /\ ret.id = 2
    /\ 1 \in hist.stoppedAll
    /\ RegisteredIds = {2}

\* C17: in every state every registered session with no seek pending has
\* readInMs = floor(readFrames / length * lengthInMs), after every progress
\* update of the callback, notified or not.
ReadInMsDerivedFromReadFrames ==
    \A d \in Registered :
       ~playingSounds[d].shouldSeek =>
          playingSounds[d].readInMs \in
             ScaleU64(playingSounds[d].readFrames, playingSounds[d].length,
                      playingSounds[d].lengthInMs)

\* the step in which the pending-seek flag of the session of device d is
\* cleared
SeekConsumedStep(d) ==
    /\ d \in Registered
    /\ d \in DOMAIN playingSounds'
    /\ playingSounds[d].shouldSeek
    /\ ~playingSounds'[d].shouldSeek

\* C18: whenever the callback clears the pending-seek flag of a session, the
\* decoder has been positioned at the session's current seekTo, the target
\* of the most recent seek call, also when a second seek arrives between the
\* callback's snapshot and its call to onSoundSeeked.
SeekNeverLost ==
    [][\A d \in Handles :
          SeekConsumedStep(d) =>
             hw'[d].pos = Min(playingSounds'[d].seekTo, hw'[d].frames)]_vars

\* the step in which the callback of device d, whose session is registered
\* with its repeat flag set, acts on a read of zero frames
RepeatEndOfStreamStep(d) ==
    /\ d \in Registered
    /\ playingSounds[d].repeat
    /\ cb[d].pc = "finish"
    /\ cb'[d].pc = "idle"

\* the step in which the session of device d leaves the registry
LeaveStep(d) == d \in Registered /\ d \notin DOMAIN playingSounds'

\* the step is the erase of stop or the clear of stopAll
StopOrStopAllStep ==
    \E t \in AllControlThreads :
       /\ ctl[t].pc \in {"stop_erase", "sa_next"}
       /\ ctl'[t] # ctl[t]

AtEndOfStream(id) ==
    \E d \in Registered :
       /\ playingSounds[d].id = id
       /\ ~playingSounds[d].paused
       /\ ~playingSounds[d].repeat
       /\ hw[d].dev = "started"
       /\ hw[d].pos = hw[d].frames

\* session id has left the registry and onSoundFinished was delivered for it
FinishedAndGone(id) ==
    id \in DOMAIN hist.finished /\ id \notin RegisteredIds

\* session id was stopped by a stopAll, finished or under way
StoppedExplicitly(id) ==
    \/ id \in hist.stoppedAll
    \/ \E t \in AllControlThreads :
          ctl[t].pc \in {"sa_teardown", "sa_next"} /\ id \in ctl[t].reg0

\* C20: a registered, non-paused session without repeat whose decoder has
\* reached the end of the stream is eventually removed from the registry
\* with onSoundFinished delivered for it, when the callbacks and the queue
\* worker keep running and the session is not stopped first.
FinishedEventually ==
    \A id \in Ids :
       AtEndOfStream(id) ~> (FinishedAndGone(id) \/ StoppedExplicitly(id))

====
